---- MODULE Spec2Model ----
(***************************************************************************)
(* The Search component of src/app/ui/search.tsx: a text input whose       *)
(* keystrokes are debounced (300 ms) and then written into the query       *)
(* string of the current address (page=1, query=<term>).                   *)
(*                                                                         *)
(* Strings are sequences of one-character strings, so that the             *)
(* serialisation params.toString() and the parse that useSearchParams()    *)
(* does on the resulting address are modelled by what they do.             *)
(***************************************************************************)
EXTENDS Integers, Sequences, FiniteSets

\* ------------------------------------------------------------- constants

\* The debounce delay, the second argument of useDebouncedCallback.
Wait == 300

\* Longest text over TermChars drawn for a keystroke ("lee" and " " are drawn too).
MaxLen == 2

\* Most parameters in an address the component is mounted on, or that the
\* external collaborator navigates to.
MaxParams == 1

\* The clock of the model advances in steps of Wait \div Resolution.
Resolution == 3

Quantum == Wait \div Resolution

\* ---------------------------------------------------------------- strings

StrPage == <<"p", "a", "g", "e">>
StrQuery == <<"q", "u", "e", "r", "y">>
StrSort == <<"s", "o", "r", "t">>
StrOne == <<"1">>
StrTwo == <<"2">>
StrLee == <<"l", "e", "e">>
StrSpace == <<" ">>

\* A character that the query string must escape.
TermChars == {"&"}

RECURSIVE StringsUpTo(_)
StringsUpTo(n) ==
    IF n = 0 THEN {<<>>}
    ELSE LET shorter == StringsUpTo(n - 1)
         IN  shorter \cup {Append(s, c) : s \in shorter, c \in TermChars}

\* The values e.target.value can take.
Terms == StringsUpTo(MaxLen) \cup {StrLee, StrSpace}

\* ------------------------------------------- URLSearchParams (list of pairs)

Pair(n, v) == [name |-> n, value |-> v]

Has(params, n) == \E i \in 1..Len(params) : params[i].name = n

FirstIndex(params, n) ==
    CHOOSE i \in 1..Len(params) :
        /\ params[i].name = n
        /\ \A j \in 1..(i - 1) : params[j].name # n

\* params.get(n): the first value of n; the caller tests Has first (null).
Get(params, n) == params[FirstIndex(params, n)].value

RECURSIVE Delete(_, _)
\* params.delete(n): every pair named n goes.
Delete(params, n) ==
    IF params = <<>> THEN <<>>
    ELSE IF Head(params).name = n THEN Delete(Tail(params), n)
    ELSE <<Head(params)>> \o Delete(Tail(params), n)

\* params.set(n, v): the first pair named n takes the value and the others
\* named n go; without one, the pair is appended.
Set(params, n, v) ==
    IF Has(params, n)
    THEN LET i == FirstIndex(params, n)
         IN  SubSeq(params, 1, i - 1) \o <<Pair(n, v)>>
                 \o Delete(SubSeq(params, i + 1, Len(params)), n)
    ELSE Append(params, Pair(n, v))

\* ------------------------------------------------ params.toString() and back

\* Faulty variant: nothing is escaped.
EncodeCharRaw(c) == <<c>>

EncodeChar(c) ==
    CASE c = " " -> <<"+">>
      [] c = "&" -> <<"%", "2", "6">>
      [] c = "+" -> <<"%", "2", "B">>
      [] c = "=" -> <<"%", "3", "D">>
      [] c = "%" -> <<"%", "2", "5">>
      [] c = "?" -> <<"%", "3", "F">>
      [] OTHER -> <<c>>

RECURSIVE Encode(_)
Encode(s) == IF s = <<>> THEN <<>> ELSE EncodeChar(Head(s)) \o Encode(Tail(s))

RECURSIVE ParamsToString(_)
\* name=value pairs, percent-encoded, joined by "&".
ParamsToString(params) ==
    IF params = <<>> THEN <<>>
    ELSE LET first == Encode(Head(params).name) \o <<"=">> \o Encode(Head(params).value)
         IN  IF Len(params) = 1 THEN first
             ELSE first \o <<"&">> \o ParamsToString(Tail(params))

HexChar(h) ==
    CASE h = <<"2", "6">> -> "&"
      [] h = <<"2", "B">> -> "+"
      [] h = <<"3", "D">> -> "="
      [] h = <<"2", "5">> -> "%"
      [] h = <<"3", "F">> -> "?"
      [] h = <<"2", "0">> -> " "
      [] OTHER -> ""

RECURSIVE Decode(_)
\* "+" is a space, %XY is the character of that code, the rest is literal.
Decode(s) ==
    IF s = <<>> THEN <<>>
    ELSE IF Head(s) = "+" THEN <<" ">> \o Decode(Tail(s))
    ELSE IF Head(s) = "%" /\ Len(s) >= 3 /\ HexChar(SubSeq(s, 2, 3)) # ""
         THEN <<HexChar(SubSeq(s, 2, 3))>> \o Decode(SubSeq(s, 4, Len(s)))
    ELSE <<Head(s)>> \o Decode(Tail(s))

\* Index of the first c in s, or Len(s) + 1.
IndexOf(s, c) ==
    IF \E i \in 1..Len(s) : s[i] = c
    THEN CHOOSE i \in 1..Len(s) : s[i] = c /\ \A j \in 1..(i - 1) : s[j] # c
    ELSE Len(s) + 1

ParsePair(seg) ==
    LET i == IndexOf(seg, "=")
    IN  Pair(Decode(SubSeq(seg, 1, i - 1)), Decode(SubSeq(seg, i + 1, Len(seg))))

RECURSIVE Parse(_)
\* The parameters of a query string: split on "&", empty pieces skipped,
\* each piece split on its first "=".
Parse(str) ==
    IF str = <<>> THEN <<>>
    ELSE LET i == IndexOf(str, "&")
             seg == SubSeq(str, 1, i - 1)
             rest == Parse(SubSeq(str, i + 1, Len(str)))
         IN  IF seg = <<>> THEN rest ELSE <<ParsePair(seg)>> \o rest

\* ------------------------------------------------------------------ state

VARIABLES
    location,      \* the address: [pathname, search], search the text after "?"
    text,          \* the input element's displayed value
    timers,        \* the scheduled debounce timers: [term, remaining]
    sinceKey,      \* time since the last keystroke, up to Wait; -1 before the first
    sinceReplace,  \* time since the last replace(), up to Wait; -1 before the first
    lastTerm,      \* the term of this mount's last commit, NoTerm before it
    ext,           \* what the external collaborator changed since mount or that commit
    burst,         \* keystrokes the latest timer stands for (2: two or more)
    before,        \* right after a commit: the state it ran in; NoBefore otherwise
    mounted        \* whether the component is on the page

vars ==
    <<location, text, timers, sinceKey, sinceReplace, lastTerm, ext, burst, before,
      mounted>>

NoTerm == <<"none">>

NoBefore ==
    [location |-> [pathname |-> <<>>, search |-> <<>>], lastTerm |-> NoTerm,
     ext |-> "idle", sinceReplace |-> -1, seen |-> <<>>, gained |-> 0]

\* The path of the page that holds the component.
Pathnames == {<<"/", "i">>}

ParamPool ==
    {Pair(StrPage, StrTwo), Pair(StrQuery, StrLee), Pair(StrQuery, <<"&">>),
     Pair(StrSort, <<"e">>)}

RECURSIVE ListsUpTo(_)
ListsUpTo(n) ==
    IF n = 0 THEN {<<>>}
    ELSE LET shorter == ListsUpTo(n - 1)
         IN  shorter \cup {Append(q, p) : q \in shorter, p \in ParamPool}

\* The query strings of the addresses the page is opened on.
Searches == {ParamsToString(q) : q \in ListsUpTo(MaxParams)}

\* useSearchParams(): the parameters of the current address.
searchParams == Parse(location.search)

\* usePathname(): the path of the current address.
pathname == location.pathname

\* Faulty variant: the input has no defaultValue.
DefaultValueEmpty(params) == <<>>

\* defaultValue={searchParams.get("query")?.toString()}: undefined shows as "".
DefaultValue(params) == IF Has(params, StrQuery) THEN Get(params, StrQuery) ELSE <<>>

\* Faulty variant: page is set only when the address has none.
SetPageIfAbsent(params) ==
    IF Has(params, StrPage) THEN params ELSE Append(params, Pair(StrPage, StrOne))

\* params.set("page", "1")
SetPage(params) == Set(params, StrPage, StrOne)

\* Faulty variant: the empty term is set like any other.
SetQueryAlways(params, term) == Set(params, StrQuery, term)

\* Faulty variant: append() in place of set().
SetQueryAppend(params, term) ==
    IF term # <<>> THEN Append(params, Pair(StrQuery, term)) ELSE Delete(params, StrQuery)

\* if (term) params.set("query", term) else params.delete("query")
SetQuery(params, term) ==
    IF term # <<>> THEN Set(params, StrQuery, term) ELSE Delete(params, StrQuery)

\* `${pathname}?${params.toString()}`
Href(path, params) == path \o <<"?">> \o ParamsToString(params)

\* Faulty variant: the new parameters do not start from the current ones.
HandleSearchFresh(params, path, term) ==
    path \o <<"?">>
         \o ParamsToString(
                IF term # <<>>
                THEN <<Pair(StrPage, StrOne), Pair(StrQuery, term)>>
                ELSE <<Pair(StrPage, StrOne)>>)

\* Faulty variant: nothing is changed when the address already has the term
\* as its query.
HandleSearchIfChanged(params, path, term) ==
    IF (IF Has(params, StrQuery) THEN Get(params, StrQuery) ELSE <<>>) = term
    THEN Href(path, params)
    ELSE Href(path, SetQuery(SetPage(params), term))

\* The body of handleSearch: the address handed to replace().
HandleSearch(params, path, term) == Href(path, SetQuery(SetPage(params), term))

\* replace(href): the address becomes href, its path before the first "?".
Replace(href) ==
    LET i == IndexOf(href, "?")
    IN  [pathname |-> SubSeq(href, 1, i - 1), search |-> SubSeq(href, i + 1, Len(href))]

\* The parameters other than page and query, which a commit leaves alone.
Others(params) ==
    LET keep == {i \in 1..Len(params) : params[i].name \notin {StrPage, StrQuery}}
        F[i \in 0..Len(params)] ==
            IF i = 0 THEN <<>>
            ELSE IF i \in keep THEN Append(F[i - 1], params[i]) ELSE F[i - 1]
    IN  F[Len(params)]

\* A timer started by a call of the debounced function: the term of the call,
\* the delay left, and the other parameters that the calling render saw.
Timer(term, delay) ==
    [term |-> term, remaining |-> delay, seen |-> Others(searchParams)]

\* Faulty variant: the running timer is not cancelled.
ScheduleNoCancel(pending, term) == pending \cup {Timer(term, Wait)}

\* Faulty variant: a running timer keeps the term it was started with.
ScheduleFirstArgs(pending, term) ==
    IF pending = {} THEN {Timer(term, Wait)} ELSE {Timer(tm.term, Wait) : tm \in pending}

\* Faulty variant: the delay is one clock step, not Wait.
ScheduleShort(pending, term) == {Timer(term, Quantum)}

\* A call of the debounced function: the running timer is cancelled and one
\* for the new term is started, Wait from now.
Schedule(pending, term) == {Timer(term, Wait)}

\* Faulty variant: the callback also runs on the leading edge.
InvokedNowLeading(pending, term) == IF pending = {} THEN {term} ELSE {}

\* The terms the callback runs with during the call itself: none, the
\* callback is debounced on the trailing edge only.
InvokedNow(pending, term) == {}

\* A timer runs its callback once its delay has elapsed.
Expired(tm) == tm.remaining = 0

Later(t) == IF t < 0 THEN t ELSE IF t + Quantum > Wait THEN Wait ELSE t + Quantum

Sooner(r) == IF r < Quantum THEN 0 ELSE r - Quantum

\* Faulty variant: the callback works on the parameters of the render that
\* made the call, so on those of the time of the keystroke.
ParamsAtCall(tm) == tm.seen

\* new URLSearchParams(searchParams): the callback copies the parameters of
\* the current render, so those of the address at the time it runs.
ParamsAtRun(tm) == searchParams

\* Faulty variant: push() in place of replace().
GainedByPush(href) == 1

\* The history entries a replace(href) adds: none, the current one is replaced.
Gained(href) == 0

\* Faulty variant: a controlled input, which shows the query of each render.
RenderedControlled(shown, params) == DefaultValue(params)

\* What the input shows after a render with `params`: it is uncontrolled
\* (defaultValue, no value), so it keeps what it shows.
Rendered(shown, params) == shown

\* Faulty variant: the timer outlives the component.
DroppedNone(pending) == pending

\* The timers left when the component is torn down: the pending one is dropped.
Dropped(pending) == {}

\* The query value an address shows, as a sequence of at most one value.
QueryOf(params) == IF Has(params, StrQuery) THEN <<Get(params, StrQuery)>> ELSE <<>>

Init ==
    /\ location \in [pathname : Pathnames, search : Searches]
    /\ text = DefaultValue(searchParams)
    /\ timers = {}
    /\ sinceKey = -1
    /\ sinceReplace = -1
    /\ lastTerm = NoTerm
    /\ ext = "none"
    /\ burst = 0
    /\ before = NoBefore
    /\ mounted = TRUE

\* handleSearch's body runs for the call that started the timer tm: a commit.
Commit(tm) ==
    LET href == HandleSearch(ParamsAtRun(tm), pathname, tm.term)
    IN  /\ location' = Replace(href)
        /\ sinceReplace' = 0
        /\ lastTerm' = tm.term
        /\ ext' = "none"
        /\ before' = [location |-> location, lastTerm |-> lastTerm, ext |-> ext,
                      sinceReplace |-> sinceReplace, seen |-> tm.seen,
                      gained |-> Gained(href)]

\* onChange: the input shows the new value and handleSearch is called with it.
Change(value) ==
    /\ mounted
    /\ value # text
    /\ text' = value
    /\ timers' = Schedule(timers, value)
    /\ sinceKey' = 0
    /\ burst' = IF timers = {} THEN 1 ELSE 2
    /\ IF value \in InvokedNow(timers, value)
       THEN Commit(Timer(value, 0))
       ELSE /\ before' = NoBefore
            /\ UNCHANGED <<location, sinceReplace, lastTerm, ext>>
    /\ UNCHANGED mounted

\* Time passes.
Tick ==
    /\ \/ \E tm \in timers : ~Expired(tm)
       \/ Later(sinceKey) # sinceKey
       \/ Later(sinceReplace) # sinceReplace
    /\ timers' = {[tm EXCEPT !.remaining = Sooner(tm.remaining)] : tm \in timers}
    /\ sinceKey' = Later(sinceKey)
    /\ sinceReplace' = Later(sinceReplace)
    /\ before' = NoBefore
    /\ UNCHANGED <<location, text, lastTerm, ext, burst, mounted>>

\* The debounce timer fires: handleSearch's body runs with the timer's term.
Timeout(tm) ==
    /\ tm \in timers
    /\ Expired(tm)
    /\ Commit(tm)
    /\ timers' = timers \ {tm}
    /\ text' = Rendered(text, Parse(location'.search))
    /\ UNCHANGED <<sinceKey, burst, mounted>>

\* The external collaborator moves to the address `params` of the same path
\* (a pagination link, the back button); a mounted component stays mounted
\* and renders again.
GoTo(params) ==
    LET search == ParamsToString(params)
    IN  /\ search # location.search
        /\ location' = [location EXCEPT !.search = search]
        /\ ext' = IF ~mounted THEN ext
                  ELSE IF QueryOf(params) # QueryOf(searchParams) THEN "query"
                  ELSE IF ext = "none" THEN "other" ELSE ext
        /\ text' = IF mounted THEN Rendered(text, params) ELSE text
        /\ before' = NoBefore
        /\ UNCHANGED <<timers, sinceKey, sinceReplace, lastTerm, burst, mounted>>

\* A navigation that sets one parameter of the current address.
Navigate(p) == GoTo(Set(searchParams, p.name, p.value))

\* The page is loaded (again) at the current address: a new mount, whose input
\* starts from defaultValue and which has no timer.
Reload ==
    /\ sinceKey >= 0 \/ ext # "none" \/ ~mounted
    /\ text' = DefaultValue(searchParams)
    /\ timers' = {}
    /\ sinceKey' = -1
    /\ lastTerm' = NoTerm
    /\ ext' = "none"
    /\ burst' = 0
    /\ before' = NoBefore
    /\ mounted' = TRUE
    /\ UNCHANGED <<location, sinceReplace>>

\* The component is torn down (the user leaves the page that holds it): the
\* input is gone and the clock since its last keystroke keeps running.
Unmount ==
    /\ mounted
    /\ mounted' = FALSE
    /\ timers' = Dropped(timers)
    /\ text' = <<>>
    /\ lastTerm' = NoTerm
    /\ ext' = "none"
    /\ burst' = IF timers = {} THEN 0 ELSE burst
    /\ before' = NoBefore
    /\ UNCHANGED <<location, sinceKey, sinceReplace>>

Next ==
    \/ \E value \in Terms : Change(value)
    \/ Tick
    \/ \E tm \in timers : Timeout(tm)
    \/ \E p \in ParamPool : Navigate(p)
    \/ Reload
    \/ Unmount

Spec == Init /\ [][Next]_vars

\* One mount of the component, with the clock running and the event loop
\* running the callback of an expired timer.
NextMounted ==
    \/ \E value \in Terms : Change(value)
    \/ Tick
    \/ \E tm \in timers : Timeout(tm)
    \/ \E p \in ParamPool : Navigate(p)

\* The event loop runs an expired timer: of the steps of NextMounted, the
\* Timeout steps are those that take an expired timer away.
Fire == \E tm \in timers : Expired(tm) /\ timers' = timers \ {tm}

LiveSpec == Init /\ [][NextMounted]_vars /\ WF_vars(Tick) /\ WF_timers(Fire)

\* ----------------------------------------------------------------- claims

\* A term as the query value it stands for: none for the empty term.
Opt(term) == IF term = <<>> THEN <<>> ELSE <<term>>

RECURSIVE Only(_, _)
\* The pairs of params whose name is in names, in order.
Only(params, names) ==
    IF params = <<>> THEN <<>>
    ELSE IF Head(params).name \in names
         THEN <<Head(params)>> \o Only(Tail(params), names)
         ELSE Only(Tail(params), names)

AllNames(params) == {params[i].name : i \in 1..Len(params)}

\* The pairs of params whose name is not in names, in order.
Without(params, names) == Only(params, AllNames(params) \ names)

\* A commit has just run (no event since).
Committed == before # NoBefore

\* The parameters of the address the commit that has just run started from.
Old == Parse(before.location.search)

\* A timer is running and time has passed since the keystroke that set it.
Pausing == timers # {} /\ sinceKey > 0

\* A keystroke has just arrived.
Typing == sinceKey = 0

\* C1: while the user pauses after typing the text s now shown, then, unless
\* a further keystroke arrives, a commit fires and just after it the address
\* has query = s when s is non-empty and no query key when s is empty.
C1_PauseCommitsTerm ==
    Pausing ~>
        (Typing \/ (Committed /\ lastTerm = text /\ QueryOf(searchParams) = Opt(text)))

\* C1 witness: "&" was typed, the window has passed, the commit has just run
\* and the address has query = "&".
C1_Witness ==
    /\ Committed
    /\ text = <<"&">>
    /\ lastTerm = text
    /\ sinceKey = Wait
    /\ QueryOf(searchParams) = <<text>>

\* C2: a commit that has just run carries the value of the final keystroke,
\* ran a full window after that keystroke and leaves no timer behind (one
\* commit per sequence); and a sequence of two or more keystrokes does lead
\* to that commit unless another keystroke extends it.
C2_Coalescing ==
    /\ [](Committed => lastTerm = text /\ sinceKey >= Wait /\ timers = {})
    /\ (burst = 2 /\ Pausing) ~> (Typing \/ (Committed /\ burst = 2 /\ lastTerm = text))

\* C2 witness: a commit has just run for a timer that stood for two or more
\* keystrokes, with the final text.
C2_Witness == Committed /\ burst = 2 /\ lastTerm = text /\ timers = {}

\* C3: when the commit that has just run changed the query parameter, the
\* address has exactly page = "1".
C3_QueryChangeResetsPage ==
    (Committed /\ QueryOf(searchParams) # QueryOf(Old))
        => Only(searchParams, {StrPage}) = <<Pair(StrPage, StrOne)>>

\* C3 witness: the commit started from page = "2", changed query, and page
\* is "1".
C3_Witness ==
    /\ Committed
    /\ QueryOf(searchParams) # QueryOf(Old)
    /\ Has(Old, StrPage)
    /\ Get(Old, StrPage) = StrTwo
    /\ Get(searchParams, StrPage) = StrOne

\* C4 as stated: after a commit of this mount, query is the term of the last
\* commit, or absent when that term is empty.
C4_QueryIsLastTerm == lastTerm # NoTerm => QueryOf(searchParams) = Opt(lastTerm)

\* C4 amended: after a commit of this mount, and as long as the external
\* collaborator has not changed query since that commit, query is the term
\* of the last commit, or absent when that term is empty.
C4_QueryIsLastTermUntilNavigated ==
    (lastTerm # NoTerm /\ ext # "query") => QueryOf(searchParams) = Opt(lastTerm)

\* C4 witness: "&" was committed, time and a navigation that kept query have
\* passed, and query is still "&".
C4_Witness ==
    /\ lastTerm = <<"&">>
    /\ ext = "other"
    /\ ~Committed
    /\ QueryOf(searchParams) = <<lastTerm>>

\* C5: the commit that has just run left every parameter other than page and
\* query as it was, left exactly one page = "1" and exactly query = term (or
\* none for the empty term); from {} "lee" gives {page: 1, query: lee}, and
\* from that "" gives {page: 1}.
C5_CommitFrame ==
    Committed =>
        /\ Without(searchParams, {StrPage, StrQuery}) = Without(Old, {StrPage, StrQuery})
        /\ Only(searchParams, {StrPage}) = <<Pair(StrPage, StrOne)>>
        /\ Only(searchParams, {StrQuery})
               = (IF lastTerm = <<>> THEN <<>> ELSE <<Pair(StrQuery, lastTerm)>>)
        /\ (Old = <<>> /\ lastTerm = StrLee)
               => searchParams = <<Pair(StrPage, StrOne), Pair(StrQuery, StrLee)>>
        /\ (Old = <<Pair(StrPage, StrOne), Pair(StrQuery, StrLee)>> /\ lastTerm = <<>>)
               => searchParams = <<Pair(StrPage, StrOne)>>

\* C5 witness: the second step of the scenario, "" committed on
\* {page: 1, query: lee}, has just run.
C5_Witness ==
    /\ Committed
    /\ Old = <<Pair(StrPage, StrOne), Pair(StrQuery, StrLee)>>
    /\ lastTerm = <<>>
    /\ searchParams = <<Pair(StrPage, StrOne)>>

\* C6: a commit of the term of the previous commit, with no navigation in
\* between, leaves the address as the previous commit made it.
C6_CommitIdempotent ==
    (Committed /\ before.lastTerm = lastTerm /\ before.ext = "none")
        => location = before.location

\* C6 witness: "&" has just been committed a second time in succession.
C6_Witness ==
    /\ Committed
    /\ before.lastTerm = lastTerm
    /\ before.ext = "none"
    /\ lastTerm = <<"&">>
    /\ location = before.location

\* C7: at most one timer runs, and it is the one of the latest keystroke:
\* its term is the text shown and its deadline is Wait after that keystroke.
C7_OneTimer ==
    /\ Cardinality(timers) <= 1
    /\ \A tm \in timers : tm.term = text /\ tm.remaining = Wait - sinceKey

\* C7 witness: a keystroke came while a timer was running, and one timer
\* runs.
C7_Witness == Cardinality(timers) = 1 /\ burst = 2 /\ sinceKey = 0

\* C8: a keystroke leaves the address as it is and requests no replace, and
\* a replace is requested only when a full window has passed since the
\* latest keystroke.
C8_KeystrokeOnlySchedules ==
    [][/\ (text' # text /\ sinceKey' = 0)
            => (location' = location /\ ~Committed' /\ sinceReplace' = sinceReplace)
       /\ Committed' => sinceKey >= Wait]_vars

\* C8 witness: a keystroke has just changed the text after an earlier
\* commit, no replace has been requested and the address still shows the
\* earlier term.
C8_Witness ==
    /\ sinceKey = 0
    /\ timers # {}
    /\ ~Committed
    /\ lastTerm # NoTerm
    /\ ext = "none"
    /\ text # lastTerm
    /\ QueryOf(searchParams) = Opt(lastTerm)

\* C9: the commit that has just run came at least Wait after the replace
\* before it, if there was one.
C9_ReplaceRate ==
    Committed => (before.sinceReplace = -1 \/ before.sinceReplace >= Wait)

\* C9 witness: a second replace has just been requested, Wait or more after
\* the first.
C9_Witness == Committed /\ before.sinceReplace >= Wait

\* C10: on mount (before any keystroke or navigation) the input shows the
\* query value of the address when it has one, and is empty otherwise.
C10_MountShowsQuery ==
    (mounted /\ sinceKey = -1 /\ ext = "none") =>
        /\ Has(searchParams, StrQuery) => text = Get(searchParams, StrQuery)
        /\ ~Has(searchParams, StrQuery) => text = <<>>

\* C10 witness: mounted on query=lee, the input shows "lee".
C10_Witness ==
    /\ mounted
    /\ sinceKey = -1
    /\ ext = "none"
    /\ Has(searchParams, StrQuery)
    /\ Get(searchParams, StrQuery) = StrLee
    /\ text = StrLee

\* C11: during one mount, a step that changes the address (a commit of the
\* component or a navigation of the collaborator, of the query or not) leaves
\* the text shown as it is, and the text shown changes only with a keystroke,
\* which starts a timer.
C11_TextFollowsKeystrokesOnly ==
    [][/\ location' # location => text' = text
       /\ text' # text => (sinceKey' = 0 /\ timers' # {} /\ location' = location)]_vars

\* C11 witness: mounted on query=lee, then the collaborator moved to
\* query=&; the input still shows "lee".
C11_Witness ==
    /\ mounted
    /\ sinceKey = -1
    /\ ext = "query"
    /\ QueryOf(searchParams) = <<<<"&">>>>
    /\ text = StrLee

\* C12: once the component is torn down no timer is left and no replace is
\* requested: a commit that was pending at teardown never runs.
C12_TeardownDropsTimer == ~mounted => (timers = {} /\ ~Committed)

\* C12 witness: the component was torn down with a timer running, and the
\* delay of that timer has since passed without a commit.
C12_Witness ==
    /\ ~mounted
    /\ burst > 0
    /\ sinceKey = Wait
    /\ timers = {}
    /\ ~Committed

\* C13: a commit leaves the path as it is, adds no history entry and makes
\* the address the path followed by "?" and the new parameters; a step that
\* is not a commit and in which the component acts (a keystroke, the clock,
\* a teardown) leaves the address as it is.
C13_CommitOnlyReplaces ==
    [][/\ Committed' =>
            /\ pathname' = pathname
            /\ before'.gained = 0
            /\ location'
                   = Replace(Href(pathname, SetQuery(SetPage(searchParams), lastTerm')))
       /\ (~Committed' /\ location' # location) =>
            UNCHANGED <<text, timers, sinceKey, sinceReplace, lastTerm, burst, mounted>>
      ]_vars

\* C13 witness: a commit has just replaced ?sort=e by ?sort=e&page=1&query=lee
\* on the same path, with no history entry added.
C13_Witness ==
    /\ Committed
    /\ before.gained = 0
    /\ pathname = before.location.pathname
    /\ Old = <<Pair(StrSort, <<"e">>)>>
    /\ searchParams
           = <<Pair(StrSort, <<"e">>), Pair(StrPage, StrOne), Pair(StrQuery, StrLee)>>

\* C14: when the collaborator changed a parameter other than query and page
\* between the keystroke and the expiry of its timer, the commit starts from
\* the parameters at the expiry: the committed address carries the other
\* parameters as they were when the timer fired, not as the keystroke saw
\* them.
C14_CommitUsesCurrentParams ==
    (Committed /\ before.seen # Others(Old)) =>
        /\ Others(searchParams) = Others(Old)
        /\ Others(searchParams) # before.seen

\* C14 witness: the keystroke was made on an address without sort, sort=e
\* was set before the timer fired, and the committed address has sort=e.
C14_Witness ==
    /\ Committed
    /\ before.seen = <<>>
    /\ Others(Old) = <<Pair(StrSort, <<"e">>)>>
    /\ Others(searchParams) = <<Pair(StrSort, <<"e">>)>>
    /\ lastTerm = StrLee

\* C15: a commit whose term is the query the address already has (or the
\* empty term on an address without query) still requests a replace, and the
\* address it leaves has exactly one page, "1", whatever page was before.
C15_CommitAlwaysResetsPage ==
    (Committed /\ QueryOf(Old) = Opt(lastTerm)) =>
        /\ sinceReplace = 0
        /\ Only(searchParams, {StrPage}) = <<Pair(StrPage, StrOne)>>
        /\ QueryOf(searchParams) = QueryOf(Old)

\* C15 witness: "lee" has just been committed on an address with query=lee
\* and page=2, and page is now "1".
C15_Witness ==
    /\ Committed
    /\ QueryOf(Old) = <<StrLee>>
    /\ lastTerm = StrLee
    /\ Has(Old, StrPage)
    /\ Get(Old, StrPage) = StrTwo
    /\ Get(searchParams, StrPage) = StrOne
    /\ sinceReplace = 0

\* C16: while mounted with no timer running, after a commit of this mount
\* and with no change of query by the collaborator since, the text shown is
\* the query of the address, and is empty exactly when the address has none.
C16_SettledTextIsQuery ==
    (mounted /\ timers = {} /\ lastTerm # NoTerm /\ ext # "query") =>
        /\ QueryOf(searchParams) = Opt(text)
        /\ text = <<>> <=> ~Has(searchParams, StrQuery)

\* C16 witness: "&" was committed, then the collaborator set page=2; the
\* input shows "&" and the address has query=&.
C16_Witness ==
    /\ mounted
    /\ timers = {}
    /\ lastTerm # NoTerm
    /\ ext = "other"
    /\ text = <<"&">>
    /\ QueryOf(searchParams) = <<<<"&">>>>
    /\ Get(searchParams, StrPage) = StrTwo

====
